---------------------------- MODULE Spec2Model ----------------------------
(***************************************************************************)
(* A model of the Meddy / MedCompanion browser code:                       *)
(*   - the demo page (photo recognition + rule-based chat),                *)
(*   - the dashboard page (session check, sign-out, remote chat),          *)
(*   - the auth pages (login / signup, session redirects),                 *)
(* and of the backend startup script.                                      *)
(* Texts are TLA+ strings handled character by character (SubSeq, Len,     *)
(* \o), so that substring matching, lowercasing and trimming are computed  *)
(* the way the JavaScript computes them.                                   *)
(***************************************************************************)
EXTENDS Integers, Sequences, FiniteSets, TLC

VARIABLES
    \* ---- demo page (photo recognition and chat) ----
    currentMedication,    \* null or a record of medicationDatabase
    conversationHistory,  \* sequence of [role, content]
    chatInput,            \* value of the #chatInput text box
    timers,               \* pending setTimeout callbacks, in firing order
    readers,              \* files whose FileReader load is still pending
    uploadZoneHidden,     \* #uploadZone carries class "hidden"
    photoPreviewHidden,   \* #photoPreview carries class "hidden"
    previewImageSrc,      \* #previewImage.src
    fileInputValue,       \* #fileInput.value
    event,                \* the listener or callback that ran last
    \* ---- one call of generateAIResponse ----
    userMessage,          \* the argument of the call
    response,             \* its return value
    returned,             \* the call has returned
    \* ---- identity provider ----
    session,              \* the provider's session: null or [user]
    \* ---- the page shown (login.html, signup.html, dashboard.html) ----
    page,                 \* window.location
    authCheck,            \* checkAuth: "pending" at the await, then "done"
    notifications,        \* auth events not yet delivered to the page's listener
    formPending,          \* provider call awaited by a form handler
    submitDisabled,       \* submit button of the form: loading and disabled
    authMessage,          \* #auth-message: text, type, shown
    redirectTimer,        \* the 1000 ms redirect after a sign-in is pending
    signoutPending,       \* the sign-out handler is at its await
    currentUser,          \* dashboard: null or the session's user
    userEmailText,        \* dashboard: #user-email textContent
    chatMessages,         \* dashboard: children of #chat-messages
    dashInput,            \* dashboard: #chat-input value
    sendBtnDisabled,      \* dashboard: #send-btn disabled
    chatInputDisabled,    \* dashboard: #chat-input disabled
    requests,             \* dashboard: submit handlers waiting for the backend
    \* ---- backend startup script and its working directory ----
    venvDir,              \* the directory venv exists
    activateScript,       \* the file venv/bin/activate exists
    envExample,           \* the file .env.example: [exists, lines]
    envFile,              \* the file .env: [exists, lines]
    pc,                   \* the statement the script is at
    venvActive,           \* the virtual environment has been activated
    exitStatus,           \* exit status of the script, -1 while it runs
    serverLaunched        \* the uvicorn command has been issued

demoVars == << currentMedication, conversationHistory, chatInput, timers,
               readers, uploadZoneHidden, photoPreviewHidden,
               previewImageSrc, fileInputValue, event >>
replyVars == << userMessage, response, returned >>
pageVars == << page, authCheck, notifications, formPending, submitDisabled,
               authMessage, redirectTimer, signoutPending, currentUser,
               userEmailText, chatMessages, dashInput, sendBtnDisabled,
               chatInputDisabled, requests >>
siteVars == << session, pageVars >>
startupVars == << venvDir, activateScript, envExample, envFile, pc,
                  venvActive, exitStatus, serverLaunched >>
vars == << demoVars, replyVars, siteVars, startupVars >>

-----------------------------------------------------------------------------
(* Bounds of the model *)

MaxFragments == 2
MaxHistory == 4
MaxTimers == 2
MaxReaders == 1
MaxNotifications == 2
MaxChatMessages == 4

-----------------------------------------------------------------------------
(* String functions of the JavaScript runtime *)

UpperCaseLetters == "ABCDEFGHIJKLMNOPQRSTUVWXYZ"
LowerCaseLetters == "abcdefghijklmnopqrstuvwxyz"

CharAt(s, i) == SubSeq(s, i, i)

\* the lowercase letter of every uppercase letter
UpperToLower ==
    [ c \in { CharAt(UpperCaseLetters, i) : i \in 1..Len(UpperCaseLetters) } |->
        CharAt(LowerCaseLetters,
               CHOOSE i \in 1..Len(UpperCaseLetters) : CharAt(UpperCaseLetters, i) = c) ]

LowerChar(c) == IF c \in DOMAIN UpperToLower THEN UpperToLower[c] ELSE c

\* the uppercase letter of every lowercase letter
LowerToUpper ==
    [ c \in { CharAt(LowerCaseLetters, i) : i \in 1..Len(LowerCaseLetters) } |->
        CharAt(UpperCaseLetters,
               CHOOSE i \in 1..Len(LowerCaseLetters) : CharAt(LowerCaseLetters, i) = c) ]

UpperChar(c) == IF c \in DOMAIN LowerToUpper THEN LowerToUpper[c] ELSE c

RECURSIVE toUpperCase(_)
toUpperCase(s) ==
    IF Len(s) = 0 THEN ""
    ELSE UpperChar(CharAt(s, 1)) \o toUpperCase(SubSeq(s, 2, Len(s)))

RECURSIVE toLowerCase(_)
toLowerCase(s) ==
    IF Len(s) = 0 THEN ""
    ELSE LowerChar(CharAt(s, 1)) \o toLowerCase(SubSeq(s, 2, Len(s)))

includes(s, k) ==
    \E i \in 1..(Len(s) - Len(k) + 1) : SubSeq(s, i, i + Len(k) - 1) = k

startsWith(s, k) ==
    Len(k) <= Len(s) /\ SubSeq(s, 1, Len(k)) = k

WhiteSpace == {" ", "\t", "\n", "\r"}

RECURSIVE trimStart(_)
trimStart(s) ==
    IF Len(s) > 0 /\ CharAt(s, 1) \in WhiteSpace
    THEN trimStart(SubSeq(s, 2, Len(s)))
    ELSE s

RECURSIVE trimEnd(_)
trimEnd(s) ==
    IF Len(s) > 0 /\ CharAt(s, Len(s)) \in WhiteSpace
    THEN trimEnd(SubSeq(s, 1, Len(s) - 1))
    ELSE s

trim(s) == trimEnd(trimStart(s))

\* s.split(sep), for a non-empty separator
RECURSIVE split(_, _)
split(s, sep) ==
    IF includes(s, sep)
    THEN LET i == CHOOSE k \in 1..(Len(s) - Len(sep) + 1) :
                     /\ SubSeq(s, k, k + Len(sep) - 1) = sep
                     /\ \A j \in 1..(k - 1) : SubSeq(s, j, j + Len(sep) - 1) # sep
         IN  << SubSeq(s, 1, i - 1) >> \o split(SubSeq(s, i + Len(sep), Len(s)), sep)
    ELSE << s >>

-----------------------------------------------------------------------------
(* The medication catalog *)

null == [null |-> TRUE]

medicationDatabase ==
    [ metformin |->
        [ name |-> "Metformin",
          genericName |-> "Metformin Hydrochloride",
          dosage |-> "500mg",
          drugClass |-> "Antidiabetic",
          description |-> "Used to control blood sugar levels in people with type 2 diabetes.",
          sideEffects |-> "Nausea, diarrhea, stomach upset",
          instructions |-> "Take with food to reduce stomach upset" ],
      lisinopril |->
        [ name |-> "Lisinopril",
          genericName |-> "Lisinopril",
          dosage |-> "10mg",
          drugClass |-> "ACE Inhibitor",
          description |-> "Used to treat high blood pressure and heart failure.",
          sideEffects |-> "Dizziness, dry cough, headache",
          instructions |-> "Take once daily, preferably at the same time each day" ],
      aspirin |->
        [ name |-> "Aspirin",
          genericName |-> "Acetylsalicylic Acid",
          dosage |-> "81mg",
          drugClass |-> "Antiplatelet",
          description |-> "Used to reduce the risk of heart attack and stroke.",
          sideEffects |-> "Stomach upset, heartburn",
          instructions |-> "Take with food or milk" ] ]

\* Object.keys(medicationDatabase), in insertion order
meds == << "metformin", "lisinopril", "aspirin" >>

-----------------------------------------------------------------------------
(* generateAIResponse: the reply templates and the rule cascade *)

RefusalMessage ==
    "I can't provide advice on changing your medication dosage or treatment plan. Please consult your doctor or pharmacist for any changes to your prescribed medications. Your safety is my top priority!"

\* A variant that substitutes the wrong field of the record.
SideEffectsReply_WrongField(med) ==
    "Common side effects of " \o med.name \o " include: " \o med.instructions
    \o ". \n\nIf you experience severe or persistent side effects, please contact your healthcare provider immediately."

SideEffectsReply(med) ==
    "Common side effects of " \o med.name \o " include: " \o med.sideEffects
    \o ". \n\nIf you experience severe or persistent side effects, please contact your healthcare provider immediately."

InstructionsReply(med) ==
    "**Instructions for " \o med.name \o ":**\n\n" \o med.instructions
    \o "\n\nAlways follow your doctor's specific instructions, as they may differ based on your individual needs."

IdentityReply(med) ==
    med.name \o " is a " \o med.drugClass \o " medication. " \o med.description
    \o "\n\nIt's important to take it as prescribed by your doctor for the best results."

FoodReply(med) ==
    med.instructions
    \o "\n\nIf you're unsure about food interactions, check with your pharmacist or the medication guide that came with your prescription."

MissedDoseReply(med) ==
    "If you miss a dose of " \o med.name
    \o ", take it as soon as you remember. However, if it's almost time for your next dose, skip the missed dose and continue with your regular schedule."
    \o "\n\nNever double up on doses. If you're unsure, contact your pharmacist for guidance."

ThanksReply ==
    "You're welcome! I'm here to help you understand your medications better. Feel free to ask anything else!"

GreetingReply ==
    "Hello! I'm here to help you with your medication questions. Upload a photo of your pill, or ask me anything about your medications!"

\* The bullet character U+2022 of the source, written in ASCII.
Bullet == "*"

DefaultReply(med) ==
    "I'd be happy to help with that! "
    \o (IF med # null THEN "For " \o med.name \o ", " ELSE "")
    \o "I can provide information about:\n\n"
    \o Bullet \o " Side effects\n"
    \o Bullet \o " How to take it\n"
    \o Bullet \o " What it's used for\n"
    \o Bullet \o " What to do if you miss a dose\n\nWhat would you like to know?"

IsRefusalTrigger(lowerMessage) ==
    \/ includes(lowerMessage, "dosage change")
    \/ includes(lowerMessage, "stop taking")
    \/ includes(lowerMessage, "instead of")
    \/ includes(lowerMessage, "replace")

\* A variant that tests the context rules before the guard rails.
generateAIResponse_ContextFirst(message) ==
    LET lowerMessage == toLowerCase(message) IN
    IF currentMedication # null /\ includes(lowerMessage, "side effect")
        THEN SideEffectsReply(currentMedication)
    ELSE IF currentMedication # null
            /\ (includes(lowerMessage, "how to take") \/ includes(lowerMessage, "instruction"))
        THEN InstructionsReply(currentMedication)
    ELSE IF currentMedication # null
            /\ (includes(lowerMessage, "what is") \/ includes(lowerMessage, "what does"))
        THEN IdentityReply(currentMedication)
    ELSE IF currentMedication # null
            /\ (includes(lowerMessage, "food") \/ includes(lowerMessage, "eat"))
        THEN FoodReply(currentMedication)
    ELSE IF currentMedication # null
            /\ (includes(lowerMessage, "miss") \/ includes(lowerMessage, "forgot"))
        THEN MissedDoseReply(currentMedication)
    ELSE IF IsRefusalTrigger(lowerMessage) THEN RefusalMessage
    ELSE IF includes(lowerMessage, "thank") THEN ThanksReply
    ELSE IF includes(lowerMessage, "hello") \/ includes(lowerMessage, "hi") THEN GreetingReply
    ELSE DefaultReply(currentMedication)

\* A variant without the currentMedication test: with no record recognized
\* it answers from the first record of the catalog.
generateAIResponse_NoContextTest(message) ==
    LET lowerMessage == toLowerCase(message)
        med == IF currentMedication # null THEN currentMedication
               ELSE medicationDatabase[meds[1]]
    IN
    IF IsRefusalTrigger(lowerMessage) THEN RefusalMessage
    ELSE IF includes(lowerMessage, "side effect") THEN SideEffectsReply(med)
    ELSE IF includes(lowerMessage, "how to take") \/ includes(lowerMessage, "instruction")
        THEN InstructionsReply(med)
    ELSE IF includes(lowerMessage, "what is") \/ includes(lowerMessage, "what does")
        THEN IdentityReply(med)
    ELSE IF includes(lowerMessage, "food") \/ includes(lowerMessage, "eat")
        THEN FoodReply(med)
    ELSE IF includes(lowerMessage, "miss") \/ includes(lowerMessage, "forgot")
        THEN MissedDoseReply(med)
    ELSE IF includes(lowerMessage, "thank") THEN ThanksReply
    ELSE IF includes(lowerMessage, "hello") \/ includes(lowerMessage, "hi") THEN GreetingReply
    ELSE DefaultReply(currentMedication)

generateAIResponse_FoodBeforeIdentity(message) ==
    LET lowerMessage == toLowerCase(message) IN
    IF IsRefusalTrigger(lowerMessage) THEN RefusalMessage
    ELSE IF currentMedication # null /\ includes(lowerMessage, "side effect")
        THEN SideEffectsReply(currentMedication)
    ELSE IF currentMedication # null
            /\ (includes(lowerMessage, "how to take") \/ includes(lowerMessage, "instruction"))
        THEN InstructionsReply(currentMedication)
    ELSE IF currentMedication # null
            /\ (includes(lowerMessage, "food") \/ includes(lowerMessage, "eat"))
        THEN FoodReply(currentMedication)
    ELSE IF currentMedication # null
            /\ (includes(lowerMessage, "what is") \/ includes(lowerMessage, "what does"))
        THEN IdentityReply(currentMedication)
    ELSE IF currentMedication # null
            /\ (includes(lowerMessage, "miss") \/ includes(lowerMessage, "forgot"))
        THEN MissedDoseReply(currentMedication)
    ELSE IF includes(lowerMessage, "thank") THEN ThanksReply
    ELSE IF includes(lowerMessage, "hello") \/ includes(lowerMessage, "hi") THEN GreetingReply
    ELSE DefaultReply(currentMedication)

generateAIResponse(message) ==
    LET lowerMessage == toLowerCase(message) IN
    IF IsRefusalTrigger(lowerMessage) THEN RefusalMessage
    ELSE IF currentMedication # null /\ includes(lowerMessage, "side effect")
        THEN SideEffectsReply(currentMedication)
    ELSE IF currentMedication # null
            /\ (includes(lowerMessage, "how to take") \/ includes(lowerMessage, "instruction"))
        THEN InstructionsReply(currentMedication)
    ELSE IF currentMedication # null
            /\ (includes(lowerMessage, "what is") \/ includes(lowerMessage, "what does"))
        THEN IdentityReply(currentMedication)
    ELSE IF currentMedication # null
            /\ (includes(lowerMessage, "food") \/ includes(lowerMessage, "eat"))
        THEN FoodReply(currentMedication)
    ELSE IF currentMedication # null
            /\ (includes(lowerMessage, "miss") \/ includes(lowerMessage, "forgot"))
        THEN MissedDoseReply(currentMedication)
    ELSE IF includes(lowerMessage, "thank") THEN ThanksReply
    ELSE IF includes(lowerMessage, "hello") \/ includes(lowerMessage, "hi") THEN GreetingReply
    ELSE DefaultReply(currentMedication)

-----------------------------------------------------------------------------
(* The demo page: upload, recognition, reset, chat *)

\* What the user can select or drop: an image, a non-image, or nothing.
NoFile == [name |-> "", type |-> ""]
Files == { [name |-> "pill.png", type |-> "image/png"],
           [name |-> "notes.txt", type |-> "text/plain"] }

\* What the user can type into #chatInput.
DemoInputs == { "  ", " Side effects? ", "Replace it" }

\* reader.result of readAsDataURL (the payload is abridged to the file name)
DataURL(file) == "data:" \o file.type \o ";base64," \o file.name

\* Entries the pending work will still push onto conversationHistory.
Committed == Len(conversationHistory) + Len(timers) + Len(readers)

DemoInit ==
    /\ currentMedication = null
    /\ conversationHistory = << >>
    /\ chatInput = ""
    /\ timers = << >>
    /\ readers = << >>
    /\ uploadZoneHidden = FALSE
    /\ photoPreviewHidden = TRUE
    /\ previewImageSrc = ""
    /\ fileInputValue = ""
    /\ event = "load"

ReplyIdle ==
    /\ userMessage = ""
    /\ response = ""
    /\ returned = FALSE

\* The page-local state of a freshly loaded page.
FreshPage ==
    [ authCheck |-> "pending",
      notifications |-> << >>,
      formPending |-> "none",
      submitDisabled |-> FALSE,
      authMessage |-> [text |-> "", type |-> "", show |-> FALSE],
      redirectTimer |-> FALSE,
      signoutPending |-> FALSE,
      currentUser |-> null,
      userEmailText |-> "",
      chatMessages |-> << >>,
      dashInput |-> "",
      sendBtnDisabled |-> FALSE,
      chatInputDisabled |-> FALSE,
      requests |-> << >> ]

PageIs(fresh) ==
    /\ authCheck = fresh.authCheck
    /\ notifications = fresh.notifications
    /\ formPending = fresh.formPending
    /\ submitDisabled = fresh.submitDisabled
    /\ authMessage = fresh.authMessage
    /\ redirectTimer = fresh.redirectTimer
    /\ signoutPending = fresh.signoutPending
    /\ currentUser = fresh.currentUser
    /\ userEmailText = fresh.userEmailText
    /\ chatMessages = fresh.chatMessages
    /\ dashInput = fresh.dashInput
    /\ sendBtnDisabled = fresh.sendBtnDisabled
    /\ chatInputDisabled = fresh.chatInputDisabled
    /\ requests = fresh.requests

\* The demo page is a page of its own: no session, no auth script.
DemoPage == "demo"

SiteIdle ==
    /\ session = null
    /\ page = DemoPage
    /\ PageIs(FreshPage)

\* The startup script is not running: nothing of its directory matters to
\* the pages.
NoEnvFile == [exists |-> FALSE, lines |-> << >>]

StartupIdle ==
    /\ venvDir = FALSE
    /\ activateScript = FALSE
    /\ envExample = NoEnvFile
    /\ envFile = NoEnvFile
    /\ pc = "idle"
    /\ venvActive = FALSE
    /\ exitStatus = -1
    /\ serverLaunched = FALSE

\* handleImageUpload(file): readAsDataURL is asynchronous; onload runs later.
handleImageUpload(file) ==
    /\ Committed + 1 <= MaxHistory
    /\ Len(readers) < MaxReaders
    /\ Len(timers) + Len(readers) < MaxTimers
    /\ readers' = Append(readers, file)

\* 'change' listener of #fileInput
fileInputChange(file) ==
    /\ fileInputValue' = (IF file = NoFile THEN "" ELSE "C:\\fakepath\\" \o file.name)
    /\ IF file # NoFile /\ startsWith(file.type, "image/")
       THEN handleImageUpload(file)
       ELSE UNCHANGED readers
    /\ UNCHANGED << currentMedication, conversationHistory, chatInput, timers,
                    uploadZoneHidden, photoPreviewHidden, previewImageSrc >>
    /\ event' = "fileInputChange"
    /\ UNCHANGED << replyVars, siteVars, startupVars >>

\* 'drop' listener of #uploadZone
uploadZoneDrop(file) ==
    /\ IF file # NoFile /\ startsWith(file.type, "image/")
       THEN handleImageUpload(file)
       ELSE UNCHANGED readers
    /\ UNCHANGED << currentMedication, conversationHistory, chatInput, timers,
                    uploadZoneHidden, photoPreviewHidden, previewImageSrc,
                    fileInputValue >>
    /\ event' = "uploadZoneDrop"
    /\ UNCHANGED << replyVars, siteVars, startupVars >>

RemoveAt(q, i) == SubSeq(q, 1, i - 1) \o SubSeq(q, i + 1, Len(q))
InsertAt(q, i, e) == SubSeq(q, 1, i - 1) \o << e >> \o SubSeq(q, i, Len(q))

\* setTimeout(recognizePill, 1500): no pending timer is due later than this one.
setRecognizeTimeout(q) ==
    Append(q, [kind |-> "recognize", message |-> "", replyAtSubmit |-> ""])

\* setTimeout(reply, 800): due after every pending reply (same delay, set
\* earlier) and before the recognition timers set less than 700 ms ago.  The
\* model keeps no clock, so any number of the trailing recognition timers
\* may be due later.
LastReply(q) ==
    IF \E i \in 1..Len(q) : q[i].kind = "reply"
    THEN CHOOSE i \in 1..Len(q) :
            q[i].kind = "reply" /\ \A j \in (i + 1)..Len(q) : q[j].kind # "reply"
    ELSE 0

\* replyAtSubmit is not read by the callback: it records what the rules
\* answer at the time of the call, for comparison with the later reply.
setReplyTimeout(q, message) ==
    { InsertAt(q, i, [kind |-> "reply", message |-> message,
                      replyAtSubmit |-> generateAIResponse(message)]) :
         i \in (LastReply(q) + 1)..(Len(q) + 1) }

\* reader.onload of handleImageUpload
readerOnload(i) ==
    /\ i \in 1..Len(readers)
    /\ uploadZoneHidden' = TRUE
    /\ photoPreviewHidden' = FALSE
    /\ previewImageSrc' = DataURL(readers[i])
    /\ timers' = setRecognizeTimeout(timers)
    /\ readers' = RemoveAt(readers, i)
    /\ UNCHANGED << currentMedication, conversationHistory, chatInput, fileInputValue >>
    /\ event' = "readerOnload"
    /\ UNCHANGED << replyVars, siteVars, startupVars >>

addUserMessage(history, text) == Append(history, [role |-> "user", content |-> text])

\* A variant that puts the entry at the front (unshift instead of push).
addAIMessage_Unshift(history, text) == << [role |-> "ai", content |-> text] >> \o history

addAIMessage(history, text) == Append(history, [role |-> "ai", content |-> text])

RecognitionSummary(med) ==
    "I've identified your medication! This appears to be **" \o med.name \o "** ("
    \o med.genericName \o "), " \o med.dosage \o "."
    \o "\n\n**What it's for:** " \o med.description
    \o "\n\n**Drug class:** " \o med.drugClass
    \o "\n\nWould you like to know more about side effects, dosage instructions, or anything else?"

\* Math.floor(Math.random() * n): any index 0 .. n-1
RandomIndex(n) == 0..(n - 1)

\* the recognition timer fires: recognizePill()
recognizePill_OtherSummary ==
    /\ timers # << >>
    /\ Head(timers).kind = "recognize"
    /\ \E r \in RandomIndex(Len(meds)), r2 \in RandomIndex(Len(meds)) :
          /\ currentMedication' = medicationDatabase[meds[r + 1]]
          /\ conversationHistory' =
                addAIMessage(conversationHistory,
                             RecognitionSummary(medicationDatabase[meds[r2 + 1]]))
    /\ timers' = Tail(timers)
    /\ UNCHANGED << chatInput, readers, uploadZoneHidden, photoPreviewHidden,
                    previewImageSrc, fileInputValue >>
    /\ event' = "recognizePill"
    /\ UNCHANGED << replyVars, siteVars, startupVars >>

recognizePill ==
    /\ timers # << >>
    /\ Head(timers).kind = "recognize"
    /\ \E r \in RandomIndex(Len(meds)) :
          LET randomMed == meds[r + 1] IN
          /\ currentMedication' = medicationDatabase[randomMed]
          /\ conversationHistory' =
                addAIMessage(conversationHistory,
                             RecognitionSummary(medicationDatabase[randomMed]))
    /\ timers' = Tail(timers)
    /\ UNCHANGED << chatInput, readers, uploadZoneHidden, photoPreviewHidden,
                    previewImageSrc, fileInputValue >>
    /\ event' = "recognizePill"
    /\ UNCHANGED << replyVars, siteVars, startupVars >>

resetUpload_ClearsHistory ==
    /\ uploadZoneHidden' = FALSE
    /\ photoPreviewHidden' = TRUE
    /\ previewImageSrc' = ""
    /\ fileInputValue' = ""
    /\ currentMedication' = null
    /\ conversationHistory' = << >>
    /\ UNCHANGED << chatInput, timers, readers >>
    /\ event' = "resetUpload"
    /\ UNCHANGED << replyVars, siteVars, startupVars >>

\* A variant that drops the recognitions still pending.
resetUpload_CancelsRecognition ==
    /\ uploadZoneHidden' = FALSE
    /\ photoPreviewHidden' = TRUE
    /\ previewImageSrc' = ""
    /\ fileInputValue' = ""
    /\ currentMedication' = null
    /\ timers' = SelectSeq(timers, LAMBDA t : t.kind # "recognize")
    /\ readers' = << >>
    /\ UNCHANGED << conversationHistory, chatInput >>
    /\ event' = "resetUpload"
    /\ UNCHANGED << replyVars, siteVars, startupVars >>

resetUpload ==
    /\ uploadZoneHidden' = FALSE
    /\ photoPreviewHidden' = TRUE
    /\ previewImageSrc' = ""
    /\ fileInputValue' = ""
    /\ currentMedication' = null
    /\ UNCHANGED << conversationHistory, chatInput, timers, readers >>
    /\ event' = "resetUpload"
    /\ UNCHANGED << replyVars, siteVars, startupVars >>

\* the user edits #chatInput
typeMessage(text) ==
    /\ chatInput' = text
    /\ UNCHANGED << currentMedication, conversationHistory, timers, readers,
                    uploadZoneHidden, photoPreviewHidden, previewImageSrc,
                    fileInputValue >>
    /\ event' = "typeMessage"
    /\ UNCHANGED << replyVars, siteVars, startupVars >>

\* sendMessage(): the send button, or Enter in #chatInput
\* A variant that tests the raw input, not the trimmed one.
sendMessage_NoTrimTest ==
    LET message == trim(chatInput) IN
    /\ IF chatInput = ""
       THEN UNCHANGED << conversationHistory, chatInput, timers >>
       ELSE /\ Committed + 2 <= MaxHistory
            /\ Len(timers) + Len(readers) < MaxTimers
            /\ conversationHistory' = addUserMessage(conversationHistory, message)
            /\ chatInput' = ""
            /\ timers' \in setReplyTimeout(timers, message)
    /\ UNCHANGED << currentMedication, readers, uploadZoneHidden,
                    photoPreviewHidden, previewImageSrc, fileInputValue >>
    /\ event' = "sendMessage"
    /\ UNCHANGED << replyVars, siteVars, startupVars >>

sendMessage ==
    LET message == trim(chatInput) IN
    /\ IF message = ""
       THEN UNCHANGED << conversationHistory, chatInput, timers >>
       ELSE /\ Committed + 2 <= MaxHistory
            /\ Len(timers) + Len(readers) < MaxTimers
            /\ conversationHistory' = addUserMessage(conversationHistory, message)
            /\ chatInput' = ""
            /\ timers' \in setReplyTimeout(timers, message)
    /\ UNCHANGED << currentMedication, readers, uploadZoneHidden,
                    photoPreviewHidden, previewImageSrc, fileInputValue >>
    /\ event' = "sendMessage"
    /\ UNCHANGED << replyVars, siteVars, startupVars >>

\* the reply timer fires: generateAIResponse(message), addAIMessage(response)
\* A variant that answers with what the rules gave when the message was sent.
replyTimeout_AtSubmit ==
    /\ timers # << >>
    /\ Head(timers).kind = "reply"
    /\ conversationHistory' =
          addAIMessage(conversationHistory, Head(timers).replyAtSubmit)
    /\ timers' = Tail(timers)
    /\ UNCHANGED << currentMedication, chatInput, readers, uploadZoneHidden,
                    photoPreviewHidden, previewImageSrc, fileInputValue >>
    /\ event' = "replyTimeout"
    /\ UNCHANGED << replyVars, siteVars, startupVars >>

replyTimeout ==
    /\ timers # << >>
    /\ Head(timers).kind = "reply"
    /\ conversationHistory' =
          addAIMessage(conversationHistory, generateAIResponse(Head(timers).message))
    /\ timers' = Tail(timers)
    /\ UNCHANGED << currentMedication, chatInput, readers, uploadZoneHidden,
                    photoPreviewHidden, previewImageSrc, fileInputValue >>
    /\ event' = "replyTimeout"
    /\ UNCHANGED << replyVars, siteVars, startupVars >>

Init == DemoInit /\ ReplyIdle /\ SiteIdle /\ StartupIdle

Next ==
    \/ \E file \in Files \cup {NoFile} : fileInputChange(file)
    \/ \E file \in Files \cup {NoFile} : uploadZoneDrop(file)
    \/ \E i \in 1..MaxReaders : readerOnload(i)
    \/ recognizePill
    \/ resetUpload
    \/ \E text \in DemoInputs : typeMessage(text)
    \/ sendMessage
    \/ replyTimeout

Spec == Init /\ [][Next]_vars

\* The reply timer is the next timer due.
ReplyDue == timers # << >> /\ Head(timers).kind = "reply"

\* The step in which the due reply timer fires: among the steps of Next it
\* is the replyTimeout step, named here by its effect on the timer queue so
\* that whether it can happen is read off the queue alone.
replyFires ==
    /\ ReplyDue
    /\ timers' = Tail(timers)
    /\ event' = "replyTimeout"

\* The event loop runs every timer callback that is due: a pending timer at
\* the head of the queue does not wait forever.
FairSpec == Spec /\ WF_vars(recognizePill) /\ WF_timers(replyFires)

-----------------------------------------------------------------------------
(* One call of generateAIResponse on a bounded set of utterances *)

Fragments ==
    { "dosage change", "Stop Taking", "instead of", "REPLACE",
      "side effect", "Side Effects", "how to take", "instruction",
      "what is", "What does", "food", "eat", "miss", "forgot",
      "thank", "hello", "hi", " this", " ", "my pill ", "replac", "stop  taking" }

RECURSIVE Phrases(_)
Phrases(n) ==
    IF n = 0 THEN { "" }
    ELSE LET shorter == Phrases(n - 1)
         IN  shorter \cup { p \o f : p \in shorter, f \in Fragments }

Utterances == Phrases(MaxFragments)

Contexts == { null } \cup { medicationDatabase[meds[i]] : i \in 1..Len(meds) }

ReplyInit ==
    /\ DemoInit!2 /\ DemoInit!3 /\ DemoInit!4 /\ DemoInit!5 /\ DemoInit!6
    /\ DemoInit!7 /\ DemoInit!8 /\ DemoInit!9 /\ DemoInit!10
    /\ currentMedication \in Contexts
    /\ userMessage \in Utterances
    /\ response = ""
    /\ returned = FALSE
    /\ SiteIdle
    /\ StartupIdle

callGenerateAIResponse ==
    /\ ~returned
    /\ response' = generateAIResponse(userMessage)
    /\ returned' = TRUE
    /\ UNCHANGED << userMessage, demoVars, siteVars, startupVars >>

ReplyNext == callGenerateAIResponse

ReplySpec == ReplyInit /\ [][ReplyNext]_vars

-----------------------------------------------------------------------------
(* Properties of generateAIResponse, checked under ReplySpec *)

RefusalTriggers == { "dosage change", "stop taking", "instead of", "replace" }

HasRefusalTrigger(text) ==
    \E t \in RefusalTriggers : includes(toLowerCase(text), t)

ContextKeywords ==
    { "side effect", "how to take", "instruction", "what is", "what does",
      "food", "eat", "miss", "forgot" }

HasKeyword(text, keywords) ==
    \E k \in keywords : includes(toLowerCase(text), k)

ContextTemplates(med) ==
    { SideEffectsReply(med), InstructionsReply(med), IdentityReply(med),
      FoodReply(med), MissedDoseReply(med) }

\* C1: an utterance whose lowercased text contains a refusal trigger gets the
\* fixed refusal message, in every context and whatever other keywords it
\* contains.
Thm_C1_RefusalTakesPrecedence ==
    (returned /\ HasRefusalTrigger(userMessage)) => response = RefusalMessage

\* A refusal was returned with a medication recognized, for an utterance
\* that also holds a context keyword.
Wit_C1_RefusalOverContextKeyword ==
    /\ returned
    /\ currentMedication # null
    /\ HasRefusalTrigger(userMessage)
    /\ HasKeyword(userMessage, ContextKeywords)
    /\ response = RefusalMessage

\* C2 as stated: with Lisinopril recognized, every utterance containing
\* "side effect" gets a reply containing "Dizziness, dry cough, headache".
Cex_C2_EverySideEffectUtterance ==
    (returned /\ currentMedication = medicationDatabase["lisinopril"]
        /\ includes(userMessage, "side effect"))
    => includes(response, "Dizziness, dry cough, headache")

\* C2 (amended): with Lisinopril recognized, every utterance whose lowercased
\* text contains "side effect" and no refusal trigger gets a reply containing
\* "Dizziness, dry cough, headache".
Thm_C2_LisinoprilSideEffects ==
    (returned /\ currentMedication = medicationDatabase["lisinopril"]
        /\ includes(toLowerCase(userMessage), "side effect")
        /\ ~HasRefusalTrigger(userMessage))
    => includes(response, "Dizziness, dry cough, headache")

\* The side-effects reply for Lisinopril was returned, for an utterance that
\* writes the keyword in capitals and matches a later rule as well.
Wit_C2_LisinoprilSideEffects ==
    /\ returned
    /\ currentMedication = medicationDatabase["lisinopril"]
    /\ includes(toLowerCase(userMessage), "side effect")
    /\ ~includes(userMessage, "side effect")
    /\ includes(toLowerCase(userMessage), "what is")
    /\ includes(response, "Dizziness, dry cough, headache")

\* C3: with no medication recognized, "what is this" gets the default reply.
Cex_C3_WhatIsThisFallsThrough ==
    (returned /\ currentMedication = null /\ userMessage = "what is this")
    => response = DefaultReply(null)

\* C4: with no medication recognized the reply is the refusal, the gratitude
\* reply, the greeting or the unpersonalized default; never one of the five
\* context templates of any record.
Thm_C4_NoContextRuleWithoutMedication ==
    (returned /\ currentMedication = null)
    => /\ response \in { RefusalMessage, ThanksReply, GreetingReply, DefaultReply(null) }
       /\ \A med \in Contexts \ { null } : response \notin ContextTemplates(med)

\* With no medication recognized, an utterance holding a context keyword
\* (and no refusal trigger) was answered.
Wit_C4_ContextKeywordWithoutMedication ==
    /\ returned
    /\ currentMedication = null
    /\ HasKeyword(userMessage, ContextKeywords)
    /\ ~HasRefusalTrigger(userMessage)
    /\ response = DefaultReply(null)

\* The context rules in the order claimed, each with its keywords.
RuleKeywords ==
    << { "side effect" },
       { "how to take", "instruction" },
       { "what is", "what does" },
       { "food", "eat" },
       { "miss", "forgot" } >>

RuleReply(i, med) ==
    CASE i = 1 -> SideEffectsReply(med)
      [] i = 2 -> InstructionsReply(med)
      [] i = 3 -> IdentityReply(med)
      [] i = 4 -> FoodReply(med)
      [] i = 5 -> MissedDoseReply(med)

MatchingRules(text) ==
    { i \in 1..Len(RuleKeywords) : HasKeyword(text, RuleKeywords[i]) }

FirstMatchingRule(text) ==
    CHOOSE i \in MatchingRules(text) : \A j \in MatchingRules(text) : i <= j

\* C12: with a medication recognized and no refusal trigger in the
\* utterance, the reply is the template of the first rule, in the order side
\* effects, instructions, identity, food, missed dose, that has a keyword in
\* the lowercased utterance, filled from the current record; such a match
\* wins over the gratitude, greeting and fallback replies.
Thm_C12_FirstContextRuleWins ==
    ( /\ returned
      /\ currentMedication # null
      /\ ~HasRefusalTrigger(userMessage)
      /\ MatchingRules(userMessage) # { } )
    => response = RuleReply(FirstMatchingRule(userMessage), currentMedication)

\* An utterance asked about food and about what the pill is, with Aspirin
\* recognized: the identity rule, which comes first, answered.
Wit_C12_IdentityBeforeFood ==
    /\ returned
    /\ currentMedication = medicationDatabase["aspirin"]
    /\ ~HasRefusalTrigger(userMessage)
    /\ MatchingRules(userMessage) = { 3, 4 }
    /\ response = IdentityReply(currentMedication)

-----------------------------------------------------------------------------
(* Properties of the demo page, checked under Spec *)

Last(q) == q[Len(q)]

IsSummary(text) ==
    \E i \in 1..Len(meds) : text = RecognitionSummary(medicationDatabase[meds[i]])

\* C5: resetUpload sets currentMedication to null and leaves
\* conversationHistory as it was.
Thm_C5_ResetKeepsHistory ==
    [][ event' = "resetUpload"
        => /\ currentMedication' = null
           /\ conversationHistory' = conversationHistory ]_vars

\* A reset ran after a recognition and a chat exchange: the medication is
\* gone, the summary and the exchange are still in the history.
Wit_C5_ResetAfterRecognition ==
    /\ event = "resetUpload"
    /\ currentMedication = null
    /\ Len(conversationHistory) >= 3
    /\ IsSummary(conversationHistory[1].content)

\* C6: every step leaves conversationHistory as it was or appends one entry
\* at its end: sendMessage a user entry holding the trimmed input,
\* recognizePill and the reply callback an "ai" entry; no other step
\* changes it.
Thm_C6_HistoryAppendOnly ==
    [][ \/ conversationHistory' = conversationHistory
        \/ /\ Len(conversationHistory') = Len(conversationHistory) + 1
           /\ SubSeq(conversationHistory', 1, Len(conversationHistory)) = conversationHistory
           /\ \/ /\ event' = "sendMessage"
                 /\ Last(conversationHistory') = [role |-> "user", content |-> trim(chatInput)]
              \/ /\ event' \in { "recognizePill", "replyTimeout" }
                 /\ Last(conversationHistory').role = "ai" ]_vars

\* The history holds a summary, then a user entry, then its reply.
Wit_C6_InterleavedHistory ==
    /\ Len(conversationHistory) >= 3
    /\ IsSummary(conversationHistory[1].content)
    /\ conversationHistory[2].role = "user"
    /\ conversationHistory[3].role = "ai"
    /\ ~IsSummary(conversationHistory[3].content)

MentionsRecord(text, med) ==
    /\ includes(text, med.name)
    /\ includes(text, med.genericName)
    /\ includes(text, med.dosage)
    /\ includes(text, med.description)
    /\ includes(text, med.drugClass)

\* Each summary names the five fields of its own record and the name of no
\* other record.
SummariesNameTheirRecord ==
    \A med \in Contexts \ { null } :
       /\ MentionsRecord(RecognitionSummary(med), med)
       /\ \A other \in Contexts \ { null, med } :
             ~includes(RecognitionSummary(med), other.name)

\* C7: every recognition sets currentMedication to one of the three catalog
\* records and appends exactly one non-empty "ai" message, the summary that
\* names the fields of that same record; in every state currentMedication is
\* null or a catalog record.
Thm_C7_RecognitionPicksCatalogRecord ==
    /\ [](currentMedication \in Contexts)
    /\ [][ event' = "recognizePill"
           => /\ currentMedication' \in Contexts \ { null }
              /\ Cardinality(Contexts \ { null }) = 3
              /\ Len(conversationHistory') = Len(conversationHistory) + 1
              /\ SubSeq(conversationHistory', 1, Len(conversationHistory)) = conversationHistory
              /\ Last(conversationHistory').role = "ai"
              /\ Last(conversationHistory').content # ""
              /\ Last(conversationHistory').content = RecognitionSummary(currentMedication')
              /\ SummariesNameTheirRecord ]_vars

\* Two recognitions completed and the second picked another record.
Wit_C7_SecondRecognition ==
    /\ event = "recognizePill"
    /\ Len(conversationHistory) >= 2
    /\ IsSummary(conversationHistory[1].content)
    /\ currentMedication = medicationDatabase["aspirin"]
    /\ ~includes(conversationHistory[1].content, currentMedication.name)
    /\ MentionsRecord(Last(conversationHistory).content, currentMedication)

PathPending == timers # << >> \/ readers # << >>

\* C8 as stated: while an accepted upload or text-submit has not completed,
\* no upload, reset or text-submit is accepted, and a reply is what the rules
\* gave in the context of its submission.
Cex_C8_PathsNeverInterleave ==
    [][ /\ PathPending
           => ~ \/ event' = "resetUpload"
                \/ /\ event' \in { "fileInputChange", "uploadZoneDrop" }
                   /\ readers' # readers
                \/ /\ event' = "sendMessage"
                   /\ conversationHistory' # conversationHistory
        /\ event' = "replyTimeout"
           => Last(conversationHistory').content = Head(timers).replyAtSubmit ]_vars

\* C8 (amended): an accepted upload or text-submit only schedules its
\* completion; what completes it later is the FileReader load and the
\* recognition timer, or the reply timer, each an atomic step, and the reply
\* is what the rules give for the submitted message in the context that holds
\* when the reply timer fires.
Thm_C8_ReplyUsesContextAtFiring ==
    [][ /\ event' = "sendMessage" /\ conversationHistory' # conversationHistory
           => /\ Len(timers') = Len(timers) + 1
              /\ \E i \in 1..Len(timers') :
                    /\ timers'[i].kind = "reply"
                    /\ timers'[i].message = Last(conversationHistory').content
                    /\ RemoveAt(timers', i) = timers
        /\ event' \in { "fileInputChange", "uploadZoneDrop" }
           => currentMedication' = currentMedication /\ conversationHistory' = conversationHistory
        /\ event' = "replyTimeout"
           => /\ currentMedication' = currentMedication
              /\ conversationHistory' =
                   Append(conversationHistory,
                          [role |-> "ai", content |-> generateAIResponse(Head(timers).message)]) ]_vars

\* A question was sent before any recognition had completed (it is the first
\* entry), a recognition completed while its reply was pending, and the reply
\* is the side-effects template of the record recognized in between.
Wit_C8_ReplyAfterInterleavedRecognition ==
    /\ event = "replyTimeout"
    /\ Len(conversationHistory) = 3
    /\ conversationHistory[1].role = "user"
    /\ IsSummary(conversationHistory[2].content)
    /\ currentMedication # null
    /\ conversationHistory[3].content = SideEffectsReply(currentMedication)

\* No upload has been accepted since the last reset (or since the page
\* loaded): an accepted upload waits in readers until its load shows the
\* preview, and only a reset hides the preview again.
NoUploadSinceReset == photoPreviewHidden /\ readers = << >>

\* C13 as stated: as long as no upload has been accepted since the reset,
\* no step sets currentMedication or appends a recognition summary, a
\* recognition delay pending at the reset included.
Cex_C13_ResetCancelsRecognition ==
    [][ NoUploadSinceReset
        => /\ currentMedication' = null
           /\ \/ conversationHistory' = conversationHistory
              \/ ~IsSummary(Last(conversationHistory').content) ]_vars

\* C13, amended: resetUpload sets currentMedication to null and cancels
\* nothing, leaving every pending load and timer in place; afterwards
\* currentMedication is set only by the next recognizePill callback, which
\* also appends the summary of the record it picked, whether its upload was
\* accepted before or after the reset.
Thm_C13_ResetLeavesRecognitionPending ==
    /\ [][ event' = "resetUpload"
           => /\ currentMedication' = null
              /\ timers' = timers
              /\ readers' = readers ]_vars
    /\ [][ (currentMedication' # currentMedication /\ currentMedication' # null)
           => /\ event' = "recognizePill"
              /\ timers # << >>
              /\ Head(timers).kind = "recognize"
              /\ timers' = Tail(timers)
              /\ conversationHistory' =
                    Append(conversationHistory,
                           [role |-> "ai", content |-> RecognitionSummary(currentMedication')]) ]_vars

\* A recognition completed although no upload was accepted since the reset:
\* the preview is hidden, the upload zone shows, a medication is set and its
\* summary is the last entry.
Wit_C13_RecognitionAfterReset ==
    /\ event = "recognizePill"
    /\ NoUploadSinceReset
    /\ ~uploadZoneHidden
    /\ currentMedication # null
    /\ Last(conversationHistory).content = RecognitionSummary(currentMedication)

UserEntries(history) == SelectSeq(history, LAMBDA e : e.role = "user")

Replies(history) ==
    SelectSeq(history, LAMBDA e : e.role = "ai" /\ ~IsSummary(e.content))

PendingReplies == SelectSeq(timers, LAMBDA t : t.kind = "reply")

\* C14: a submit whose trimmed input is not empty appends the user entry in
\* the same step and schedules one reply; every user entry has exactly one
\* reply, appended or pending, the pending ones in the order of their
\* messages, and a reply callback answers the oldest unanswered message;
\* with due timers always fired, the n-th message eventually has its reply
\* (a message and its reply take two entries of the bounded history, so n
\* ranges to half of MaxHistory).
\* A submit whose trimmed input is empty changes neither the history nor the
\* medication and schedules nothing.
Thm_C14_EveryMessageGetsOneReply ==
    /\ [][ (event' = "sendMessage" /\ trim(chatInput) # "")
           => /\ conversationHistory' =
                    Append(conversationHistory, [role |-> "user", content |-> trim(chatInput)])
              /\ Len(timers') = Len(timers) + 1
              /\ currentMedication' = currentMedication ]_vars
    /\ [][ (event' = "sendMessage" /\ trim(chatInput) = "")
           => /\ conversationHistory' = conversationHistory
              /\ currentMedication' = currentMedication
              /\ timers' = timers ]_vars
    /\ [][ event' = "replyTimeout"
           => LET asked == UserEntries(conversationHistory)
                  answered == Len(Replies(conversationHistory))
              IN  /\ answered < Len(asked)
                  /\ conversationHistory' =
                        Append(conversationHistory,
                               [role |-> "ai",
                                content |-> generateAIResponse(asked[answered + 1].content)]) ]_vars
    /\ [](LET asked == UserEntries(conversationHistory)
              answered == Len(Replies(conversationHistory))
          IN  /\ answered + Len(PendingReplies) = Len(asked)
              /\ \A k \in 1..Len(PendingReplies) :
                    PendingReplies[k].message = asked[answered + k].content)
    /\ \A n \in 1..(MaxHistory \div 2) :
          (Len(UserEntries(conversationHistory)) >= n)
             ~> (Len(Replies(conversationHistory)) >= n)

\* Two messages were pending together and both have been answered, each
\* after its message and in the order sent: the question first (by the
\* fallback, no medication being set), then the refusal.
Wit_C14_TwoRepliesInOrder ==
    /\ Len(conversationHistory) = 4
    /\ conversationHistory[1] = [role |-> "user", content |-> "Side effects?"]
    /\ conversationHistory[2] = [role |-> "user", content |-> "Replace it"]
    /\ conversationHistory[3] = [role |-> "ai", content |-> DefaultReply(null)]
    /\ conversationHistory[4] = [role |-> "ai", content |-> RefusalMessage]
    /\ timers = << >>

-----------------------------------------------------------------------------
(* The identity provider, the auth pages and the dashboard *)

AuthPages == { "login.html", "signup.html" }
DashboardPage == "dashboard.html"
Pages == AuthPages \cup { DashboardPage }

Users == { [email |-> "ann@example.com"] }
Sessions == { [user |-> u] : u \in Users }

\* error.message of a failed provider call ("" when the error has none)
ProviderErrors == { "Invalid login credentials", "" }

\* event names of onAuthStateChange
AuthEvents == { "SIGNED_IN", "SIGNED_OUT", "TOKEN_REFRESHED" }

demoState == << currentMedication, conversationHistory, chatInput, timers,
                readers, uploadZoneHidden, photoPreviewHidden,
                previewImageSrc, fileInputValue >>

Current ==
    [ authCheck |-> authCheck,
      notifications |-> notifications,
      formPending |-> formPending,
      submitDisabled |-> submitDisabled,
      authMessage |-> authMessage,
      redirectTimer |-> redirectTimer,
      signoutPending |-> signoutPending,
      currentUser |-> currentUser,
      userEmailText |-> userEmailText,
      chatMessages |-> chatMessages,
      dashInput |-> dashInput,
      sendBtnDisabled |-> sendBtnDisabled,
      chatInputDisabled |-> chatInputDisabled,
      requests |-> requests ]

PageBecomes(next) ==
    /\ authCheck' = next.authCheck
    /\ notifications' = next.notifications
    /\ formPending' = next.formPending
    /\ submitDisabled' = next.submitDisabled
    /\ authMessage' = next.authMessage
    /\ redirectTimer' = next.redirectTimer
    /\ signoutPending' = next.signoutPending
    /\ currentUser' = next.currentUser
    /\ userEmailText' = next.userEmailText
    /\ chatMessages' = next.chatMessages
    /\ dashInput' = next.dashInput
    /\ sendBtnDisabled' = next.sendBtnDisabled
    /\ chatInputDisabled' = next.chatInputDisabled
    /\ requests' = next.requests

\* window.location.href = target: the page is replaced; its pending
\* callbacks are gone and the scripts of the target run from the start.
Navigate(target) ==
    /\ page' = target
    /\ PageBecomes(FreshPage)

\* The provider notifies the listener registered by the auth script; the
\* dashboard script registers none.
Notify(queue, authEvent) ==
    IF page \in AuthPages THEN Append(queue, authEvent) ELSE queue

\* showMessage(message, type); the 5000 ms timer that hides it is hideMessage
showMessage(message, type) == [text |-> message, type |-> type, show |-> TRUE]

\* error.message || fallback
OrElse(message, fallback) == IF message = "" THEN fallback ELSE message

\* the user opens a page by its address or by a link
openPage(target) ==
    /\ page \in Pages
    /\ Navigate(target)
    /\ UNCHANGED session
    /\ event' = "openPage"
    /\ UNCHANGED << demoState, replyVars, startupVars >>

\* checkAuth() of the auth script resumes after getSession()
authCheckAuth ==
    /\ page \in AuthPages
    /\ authCheck = "pending"
    /\ IF session # null
       THEN Navigate(DashboardPage)
       ELSE /\ page' = page
            /\ PageBecomes([Current EXCEPT !.authCheck = "done"])
    /\ UNCHANGED session
    /\ event' = "authCheckAuth"
    /\ UNCHANGED << demoState, replyVars, startupVars >>

\* checkAuth() of the dashboard script resumes after getSession()
dashboardCheckAuth ==
    /\ page = DashboardPage
    /\ authCheck = "pending"
    /\ IF session = null
       THEN Navigate("login.html")
       ELSE /\ page' = page
            /\ PageBecomes([Current EXCEPT !.authCheck = "done",
                                           !.currentUser = session.user,
                                           !.userEmailText = session.user.email])
    /\ UNCHANGED session
    /\ event' = "dashboardCheckAuth"
    /\ UNCHANGED << demoState, replyVars, startupVars >>

\* the onAuthStateChange callback of the auth script
onAuthStateChange ==
    /\ page \in AuthPages
    /\ notifications # << >>
    /\ IF Head(notifications) = "SIGNED_IN" THEN Navigate(DashboardPage)
       ELSE IF Head(notifications) = "SIGNED_OUT" THEN Navigate("login.html")
       ELSE /\ page' = page
            /\ PageBecomes([Current EXCEPT !.notifications = Tail(notifications)])
    /\ UNCHANGED session
    /\ event' = "onAuthStateChange:" \o Head(notifications)
    /\ UNCHANGED << demoState, replyVars, startupVars >>

\* The session begins or ends outside this page (another tab, expiry,
\* revocation); the provider notifies the page's listener, if it has one.
providerSessionChange(newSession) ==
    /\ page \in Pages
    /\ newSession # session
    /\ Len(notifications) < MaxNotifications
    /\ session' = newSession
    /\ page' = page
    /\ PageBecomes([Current EXCEPT !.notifications =
          Notify(notifications, IF newSession = null THEN "SIGNED_OUT" ELSE "SIGNED_IN")])
    /\ event' = "providerSessionChange"
    /\ UNCHANGED << demoState, replyVars, startupVars >>

\* the provider refreshes the token of the session
providerTokenRefresh ==
    /\ page \in AuthPages
    /\ session # null
    /\ Len(notifications) < MaxNotifications
    /\ page' = page
    /\ PageBecomes([Current EXCEPT !.notifications = Append(notifications, "TOKEN_REFRESHED")])
    /\ UNCHANGED session
    /\ event' = "providerTokenRefresh"
    /\ UNCHANGED << demoState, replyVars, startupVars >>

\* 'click' listener of #google-signin-btn: signInWithOAuth fails, or the
\* browser leaves for the provider and comes back at redirectTo, with a
\* session if the user consented.
googleSignIn(result) ==
    /\ page = "login.html"
    /\ IF result.error
       THEN /\ page' = page
            /\ PageBecomes([Current EXCEPT !.authMessage =
                  showMessage(OrElse(result.message, "Failed to sign in with Google"), "error")])
            /\ UNCHANGED session
       ELSE /\ Navigate(DashboardPage)
            /\ session' = IF result.session # null THEN result.session ELSE session
    /\ event' = "googleSignIn"
    /\ UNCHANGED << demoState, replyVars, startupVars >>

\* 'submit' listener of #signin-form, up to the await (a form whose submit
\* button is disabled is not submitted)
signinSubmit ==
    /\ page = "login.html"
    /\ ~submitDisabled
    /\ page' = page
    /\ PageBecomes([Current EXCEPT !.submitDisabled = TRUE, !.formPending = "signin"])
    /\ UNCHANGED session
    /\ event' = "signinSubmit"
    /\ UNCHANGED << demoState, replyVars, startupVars >>

\* 'submit' listener of #signin-form, after signInWithPassword settles
signinSettles(result) ==
    /\ page = "login.html"
    /\ formPending = "signin"
    /\ Len(notifications) < MaxNotifications
    /\ page' = page
    /\ IF result.error
       THEN /\ PageBecomes([Current EXCEPT
                  !.authMessage = showMessage(OrElse(result.message, "Failed to sign in"), "error"),
                  !.submitDisabled = FALSE,
                  !.formPending = "none"])
            /\ UNCHANGED session
       ELSE /\ PageBecomes([Current EXCEPT
                  !.authMessage = showMessage("Sign in successful! Redirecting...", "success"),
                  !.redirectTimer = TRUE,
                  !.notifications = Notify(notifications, "SIGNED_IN"),
                  !.submitDisabled = FALSE,
                  !.formPending = "none"])
            /\ session' = result.session
    /\ event' = "signinSettles"
    /\ UNCHANGED << demoState, replyVars, startupVars >>

\* the 1000 ms timer set after a successful sign-in
redirectTimeout ==
    /\ page = "login.html"
    /\ redirectTimer
    /\ Navigate(DashboardPage)
    /\ UNCHANGED session
    /\ event' = "redirectTimeout"
    /\ UNCHANGED << demoState, replyVars, startupVars >>

\* 'submit' listener of #signup-form, up to the await
signupSubmit(passwordsMatch) ==
    /\ page = "signup.html"
    /\ ~submitDisabled
    /\ page' = page
    /\ IF ~passwordsMatch
       THEN PageBecomes([Current EXCEPT !.authMessage = showMessage("Passwords do not match", "error")])
       ELSE PageBecomes([Current EXCEPT !.submitDisabled = TRUE, !.formPending = "signup"])
    /\ UNCHANGED session
    /\ event' = "signupSubmit"
    /\ UNCHANGED << demoState, replyVars, startupVars >>

\* 'submit' listener of #signup-form, after signUp settles; the provider
\* opens a session at once when it asks for no e-mail confirmation
signupSettles(result) ==
    /\ page = "signup.html"
    /\ formPending = "signup"
    /\ Len(notifications) < MaxNotifications
    /\ page' = page
    /\ IF result.error
       THEN /\ PageBecomes([Current EXCEPT
                  !.authMessage = showMessage(OrElse(result.message, "Failed to create account"), "error"),
                  !.submitDisabled = FALSE,
                  !.formPending = "none"])
            /\ UNCHANGED session
       ELSE /\ PageBecomes([Current EXCEPT
                  !.authMessage = showMessage("Account created! Please check your email to verify your account.", "success"),
                  !.notifications = IF result.session # null
                                    THEN Notify(notifications, "SIGNED_IN")
                                    ELSE notifications,
                  !.submitDisabled = FALSE,
                  !.formPending = "none"])
            /\ session' = IF result.session # null THEN result.session ELSE session
    /\ event' = "signupSettles"
    /\ UNCHANGED << demoState, replyVars, startupVars >>

\* the 5000 ms timer of showMessage removes class "show"
hideMessage ==
    /\ page \in AuthPages
    /\ authMessage.show
    /\ page' = page
    /\ PageBecomes([Current EXCEPT !.authMessage = [authMessage EXCEPT !.show = FALSE]])
    /\ UNCHANGED session
    /\ event' = "hideMessage"
    /\ UNCHANGED << demoState, replyVars, startupVars >>

\* 'click' listener of #signout-btn, up to the await
signoutClick ==
    /\ page = DashboardPage
    /\ page' = page
    /\ PageBecomes([Current EXCEPT !.signoutPending = TRUE])
    /\ UNCHANGED session
    /\ event' = "signoutClick"
    /\ UNCHANGED << demoState, replyVars, startupVars >>

\* 'click' listener of #signout-btn, after signOut settles (the result is not
\* inspected: a failed call leaves the session in place)
signoutSettles(ok) ==
    /\ page = DashboardPage
    /\ signoutPending
    /\ session' = IF ok THEN null ELSE session
    /\ Navigate("login.html")
    /\ event' = "signoutSettles"
    /\ UNCHANGED << demoState, replyVars, startupVars >>

ProviderResults ==
    { [error |-> TRUE, message |-> m, session |-> null] : m \in ProviderErrors }
    \cup { [error |-> FALSE, message |-> "", session |-> ss] : ss \in Sessions }

SignUpResults ==
    ProviderResults \cup { [error |-> FALSE, message |-> "", session |-> null] }

-----------------------------------------------------------------------------
(* The dashboard chat *)

\* What the user can type into #chat-input.
DashInputs == { "  ", " What is aspirin? ", "Hi\n\nCan I stop?" }

\* How fetch() settles: rejected (transport failure) or a response with a status.
FetchOutcomes ==
    { [rejected |-> TRUE, status |-> 0] }
    \cup { [rejected |-> FALSE, status |-> st] : st \in { 200, 404, 500 } }

\* response.ok
ok(status) == status \in 200..299

\* How response.json() settles: rejected (the body is no JSON) or parsed data;
\* the data may lack the field "response".
JsonOutcomes ==
    { [rejected |-> TRUE, data |-> [is_refused |-> FALSE]] }
    \cup { [rejected |-> FALSE, data |-> dt] :
              dt \in { [response |-> "Aspirin is an antiplatelet.\n\nAsk your pharmacist.", is_refused |-> FALSE],
                       [response |-> "I can't advise on that.", is_refused |-> TRUE],
                       [is_refused |-> FALSE] } }

ErrorMessage ==
    "Sorry, I encountered an error. Please make sure the AI backend is running and try again."

IsNonBlank(paragraph) == trim(paragraph) # ""

\* addMessage(content, isUser): the node appended to #chat-messages (its
\* time stamp is not kept)
addMessage(children, content, isUser) ==
    Append(children,
           [ id |-> "",
             className |-> IF isUser THEN "chat-message user-message"
                           ELSE "chat-message ai-message",
             avatar |-> IF isUser THEN toUpperCase(CharAt(currentUser.email, 1)) ELSE "AI",
             paragraphs |-> SelectSeq(split(content, "\n\n"), IsNonBlank) ])

showTypingIndicator(children) ==
    Append(children,
           [ id |-> "typing-indicator",
             className |-> "chat-message ai-message",
             avatar |-> "AI",
             paragraphs |-> << >> ])

\* removeTypingIndicator(): getElementById finds the first such node
removeTypingIndicator(children) ==
    IF \E i \in 1..Len(children) : children[i].id = "typing-indicator"
    THEN RemoveAt(children,
                  CHOOSE i \in 1..Len(children) :
                     /\ children[i].id = "typing-indicator"
                     /\ \A j \in 1..(i - 1) : children[j].id # "typing-indicator")
    ELSE children

\* the user edits #chat-input
chatTyping(text) ==
    /\ page = DashboardPage
    /\ ~chatInputDisabled
    /\ page' = page
    /\ PageBecomes([Current EXCEPT !.dashInput = text])
    /\ UNCHANGED session
    /\ event' = "chatTyping"
    /\ UNCHANGED << demoState, replyVars, startupVars >>

\* A variant that leaves the button and the input enabled during the request.
chatSubmit_KeepsControlsEnabled ==
    LET message == trim(dashInput) IN
    /\ page = DashboardPage
    /\ ~sendBtnDisabled \/ ~chatInputDisabled
    /\ page' = page
    /\ IF message = "" \/ currentUser = null
       THEN PageBecomes(Current)
       ELSE /\ Len(chatMessages) + 2 <= MaxChatMessages
            /\ PageBecomes([Current EXCEPT
                  !.chatMessages = showTypingIndicator(addMessage(chatMessages, message, TRUE)),
                  !.dashInput = "",
                  !.requests = Append(requests, [message |-> message, stage |-> "fetch"])])
    /\ UNCHANGED session
    /\ event' = "chatSubmit"
    /\ UNCHANGED << demoState, replyVars, startupVars >>

\* 'submit' listener of #chat-form, up to the await.  A form is submitted
\* by its enabled button or by Enter in its enabled input.  addMessage
\* throws while currentUser is null (currentUser.email), which ends the
\* handler before it changed anything.
chatSubmit ==
    LET message == trim(dashInput) IN
    /\ page = DashboardPage
    /\ ~sendBtnDisabled \/ ~chatInputDisabled
    /\ page' = page
    /\ IF message = "" \/ currentUser = null
       THEN PageBecomes(Current)
       ELSE /\ Len(chatMessages) + 2 <= MaxChatMessages
            /\ PageBecomes([Current EXCEPT
                  !.chatMessages = showTypingIndicator(addMessage(chatMessages, message, TRUE)),
                  !.dashInput = "",
                  !.sendBtnDisabled = TRUE,
                  !.chatInputDisabled = TRUE,
                  !.requests = Append(requests, [message |-> message, stage |-> "fetch"])])
    /\ UNCHANGED session
    /\ event' = "chatSubmit"
    /\ UNCHANGED << demoState, replyVars, startupVars >>

\* A variant whose catch block leaves the typing indicator in place.
afterFailure_KeepsIndicator ==
    [Current EXCEPT
        !.chatMessages = addMessage(chatMessages, ErrorMessage, FALSE),
        !.sendBtnDisabled = FALSE,
        !.chatInputDisabled = FALSE]

\* catch and finally of the submit handler
afterFailure ==
    [Current EXCEPT
        !.chatMessages = addMessage(removeTypingIndicator(chatMessages), ErrorMessage, FALSE),
        !.sendBtnDisabled = FALSE,
        !.chatInputDisabled = FALSE]

\* the rest of the try block, and finally; addMessage throws on a missing
\* response text (content.split), which leads to the catch block
afterResponse(data) ==
    IF "response" \in DOMAIN data
    THEN [Current EXCEPT
            !.chatMessages = addMessage(removeTypingIndicator(chatMessages), data.response, FALSE),
            !.sendBtnDisabled = FALSE,
            !.chatInputDisabled = FALSE]
    ELSE [Current EXCEPT
            !.chatMessages = addMessage(removeTypingIndicator(removeTypingIndicator(chatMessages)),
                                        ErrorMessage, FALSE),
            !.sendBtnDisabled = FALSE,
            !.chatInputDisabled = FALSE]

\* sendMessage(message) of the dashboard resumes after fetch()
fetchSettles(i, outcome) ==
    /\ page = DashboardPage
    /\ i \in 1..Len(requests)
    /\ requests[i].stage = "fetch"
    /\ page' = page
    /\ IF outcome.rejected \/ ~ok(outcome.status)
       THEN PageBecomes([afterFailure EXCEPT !.requests = RemoveAt(requests, i)])
       ELSE PageBecomes([Current EXCEPT !.requests[i].stage = "json"])
    /\ UNCHANGED session
    /\ event' = (IF outcome.rejected THEN "fetch:rejected"
                 ELSE IF ~ok(outcome.status) THEN "fetch:status" ELSE "fetch:ok")
    /\ UNCHANGED << demoState, replyVars, startupVars >>

\* sendMessage(message) of the dashboard resumes after response.json(), and
\* the submit handler after it
jsonSettles(i, outcome) ==
    /\ page = DashboardPage
    /\ i \in 1..Len(requests)
    /\ requests[i].stage = "json"
    /\ page' = page
    /\ IF outcome.rejected
       THEN PageBecomes([afterFailure EXCEPT !.requests = RemoveAt(requests, i)])
       ELSE PageBecomes([afterResponse(outcome.data) EXCEPT !.requests = RemoveAt(requests, i)])
    /\ UNCHANGED session
    /\ event' = (IF outcome.rejected THEN "json:rejected" ELSE "json:resolved")
    /\ UNCHANGED << demoState, replyVars, startupVars >>

SiteInit ==
    /\ DemoInit
    /\ ReplyIdle
    /\ session \in { null } \cup Sessions
    /\ page \in Pages
    /\ PageIs(FreshPage)
    /\ StartupIdle

SiteNext ==
    \/ \E target \in Pages : openPage(target)
    \/ authCheckAuth
    \/ dashboardCheckAuth
    \/ onAuthStateChange
    \/ \E newSession \in { null } \cup Sessions : providerSessionChange(newSession)
    \/ providerTokenRefresh
    \/ \E result \in SignUpResults : googleSignIn(result)
    \/ signinSubmit
    \/ \E result \in ProviderResults : signinSettles(result)
    \/ redirectTimeout
    \/ \E passwordsMatch \in BOOLEAN : signupSubmit(passwordsMatch)
    \/ \E result \in SignUpResults : signupSettles(result)
    \/ hideMessage
    \/ signoutClick
    \/ \E signedOut \in BOOLEAN : signoutSettles(signedOut)
    \/ \E text \in DashInputs : chatTyping(text)
    \/ chatSubmit
    \/ \E i \in 1..MaxChatMessages, outcome \in FetchOutcomes : fetchSettles(i, outcome)
    \/ \E i \in 1..MaxChatMessages, outcome \in JsonOutcomes : jsonSettles(i, outcome)

SiteSpec == SiteInit /\ [][SiteNext]_vars

-----------------------------------------------------------------------------
(* Properties of the auth pages and the dashboard, checked under SiteSpec *)

\* The page has finished its auth check and waits for nothing: no
\* undelivered auth event, no provider call awaited, no redirect timer.
Settled ==
    /\ authCheck = "done"
    /\ notifications = << >>
    /\ formPending = "none"
    /\ ~redirectTimer
    /\ ~signoutPending

\* C10: once the auth check has completed and nothing is pending, an auth
\* page shows only without a session and the dashboard only with one.
Cex_C10_PageFollowsSession ==
    Settled => /\ page \in AuthPages => session = null
               /\ page = DashboardPage => session # null

FailureEvents == { "fetch:rejected", "fetch:status", "json:rejected" }
CompletionEvents == FailureEvents \cup { "json:resolved" }

IsIndicator(node) == node.id = "typing-indicator"
IsMessage(node) == ~IsIndicator(node)
IsApology(node) ==
    /\ node.id = ""
    /\ node.className = "chat-message ai-message"
    /\ node.avatar = "AI"
    /\ node.paragraphs = << ErrorMessage >>

\* C9: when a chat request ends in a transport failure, a non-success status
\* or an unreadable body, the typing indicator goes, exactly one assistant
\* message with the fixed apology is appended after the messages shown so
\* far, and the button and the input are enabled; after any completed
\* request the controls are enabled and no typing indicator remains.
Thm_C9_FailureShowsOneApology ==
    /\ [][ event' \in FailureEvents
           => /\ Len(chatMessages') >= 1
              /\ IsApology(Last(chatMessages'))
              /\ SubSeq(chatMessages', 1, Len(chatMessages') - 1) = SelectSeq(chatMessages, IsMessage)
              /\ Len(SelectSeq(chatMessages', IsApology)) = Len(SelectSeq(chatMessages, IsApology)) + 1 ]_vars
    /\ [][ event' \in CompletionEvents
           => /\ ~sendBtnDisabled'
              /\ ~chatInputDisabled'
              /\ SelectSeq(chatMessages', IsIndicator) = << >> ]_vars
    /\ [](requests = << >>
           => /\ ~sendBtnDisabled
              /\ ~chatInputDisabled
              /\ SelectSeq(chatMessages, IsIndicator) = << >>)

\* A request for a two-paragraph message came back with a non-success
\* status: the user message is followed by the apology, nothing else is
\* shown, and the controls are enabled.
Wit_C9_ApologyAfterHttpError ==
    /\ page = DashboardPage
    /\ event = "fetch:status"
    /\ requests = << >>
    /\ Len(chatMessages) = 2
    /\ chatMessages[1].className = "chat-message user-message"
    /\ Len(chatMessages[1].paragraphs) = 2
    /\ IsApology(chatMessages[2])
    /\ ~sendBtnDisabled
    /\ ~chatInputDisabled

\* C15: at most one chat request is outstanding; while one is, the send
\* button and the input are disabled; a submit issues a request only when
\* none is outstanding and the trimmed input is not empty, and disables both
\* controls in the same step; a submit of empty or whitespace-only input
\* issues no request and shows no message.
Thm_C15_OneRequestInFlight ==
    /\ [](Len(requests) <= 1)
    /\ [](requests # << >> => sendBtnDisabled /\ chatInputDisabled)
    /\ [][ (event' = "chatSubmit" /\ requests' # requests)
           => /\ requests = << >>
              /\ trim(dashInput) # ""
              /\ requests' = << [message |-> trim(dashInput), stage |-> "fetch"] >>
              /\ sendBtnDisabled'
              /\ chatInputDisabled' ]_vars
    /\ [][ (event' = "chatSubmit" /\ trim(dashInput) = "")
           => /\ requests' = requests
              /\ chatMessages' = chatMessages ]_vars

\* A second request is outstanding after the first was answered: the chat
\* shows the first exchange, the second user message and the typing
\* indicator, and both controls are disabled.
Wit_C15_SecondRequestAfterFirst ==
    /\ page = DashboardPage
    /\ event = "chatSubmit"
    /\ Len(requests) = 1
    /\ sendBtnDisabled
    /\ chatInputDisabled
    /\ Len(chatMessages) = 4
    /\ chatMessages[3].className = "chat-message user-message"
    /\ IsIndicator(chatMessages[4])

-----------------------------------------------------------------------------
(* The backend startup script, run once in a working directory *)

MaxEnvLines == 2

EnvLines ==
    { "GEMINI_API_KEY=", "GEMINI_API_KEY=your_api_key_here",
      "GEMINI_API_KEY=your_actual_api_key_here", "GEMINI_API_KEY=AIzaSyD_x9",
      "GEMINI_API_KEY=___", "# Gemini", "", "PORT=8000" }

RECURSIVE LineSeqs(_)
LineSeqs(n) ==
    IF n = 0 THEN { << >> }
    ELSE LET shorter == LineSeqs(n - 1)
         IN  shorter \cup { Append(f, l) : f \in shorter, l \in EnvLines }

EnvFiles == { [exists |-> TRUE, lines |-> f] : f \in LineSeqs(MaxEnvLines) }

\* .env.example is a file of the repository that the script only copies.
EnvExamples ==
    { NoEnvFile,
      [exists |-> TRUE, lines |-> << "GEMINI_API_KEY=your_api_key_here" >>],
      [exists |-> TRUE, lines |-> << "# Gemini", "GEMINI_API_KEY=" >>] }

KeyAssignment == "GEMINI_API_KEY="

\* The basic regular expression GEMINI_API_KEY=.*[^_] matches a line that
\* holds the literal text followed, anywhere later on the line, by one
\* character other than an underscore.
grepMatchesLine(line) ==
    \E i \in 1..(Len(line) - Len(KeyAssignment) + 1) :
        /\ SubSeq(line, i, i + Len(KeyAssignment) - 1) = KeyAssignment
        /\ \E j \in (i + Len(KeyAssignment))..Len(line) : CharAt(line, j) # "_"

\* grep -q PATTERN .env: status 0 when some line matches, 1 when none does,
\* 2 when the file cannot be read.
grepQuiet(file) ==
    IF ~file.exists THEN 2
    ELSE IF \E k \in 1..Len(file.lines) : grepMatchesLine(file.lines[k]) THEN 0
    ELSE 1

StartupInit ==
    /\ DemoInit
    /\ ReplyIdle
    /\ SiteIdle
    /\ venvDir \in BOOLEAN
    /\ activateScript \in BOOLEAN
    /\ venvDir = FALSE => activateScript = FALSE
    /\ envExample \in EnvExamples
    /\ envFile \in { NoEnvFile } \cup EnvFiles
    /\ pc = "checkVenv"
    /\ venvActive = FALSE
    /\ exitStatus = -1
    /\ serverLaunched = FALSE

\* if [ ! -d "venv" ]; then ... exit 1; fi
checkVenv ==
    /\ pc = "checkVenv"
    /\ IF ~venvDir
       THEN pc' = "exited" /\ exitStatus' = 1
       ELSE pc' = "activate" /\ UNCHANGED exitStatus
    /\ UNCHANGED << venvDir, activateScript, envExample, envFile, venvActive,
                    serverLaunched >>
    /\ event' = "checkVenv"
    /\ UNCHANGED << demoState, replyVars, siteVars >>

\* source venv/bin/activate: a failure of source does not stop the script.
activateVenv ==
    /\ pc = "activate"
    /\ venvActive' = activateScript
    /\ pc' = "checkEnv"
    /\ UNCHANGED << venvDir, activateScript, envExample, envFile, exitStatus,
                    serverLaunched >>
    /\ event' = "activateVenv"
    /\ UNCHANGED << demoState, replyVars, siteVars >>

\* if [ ! -f ".env" ]; then cp .env.example .env; ...; exit 1; fi
checkEnvFile ==
    /\ pc = "checkEnv"
    /\ IF ~envFile.exists
       THEN /\ envFile' = (IF envExample.exists THEN envExample ELSE envFile)
            /\ pc' = "exited"
            /\ exitStatus' = 1
       ELSE /\ pc' = "checkKey"
            /\ UNCHANGED << envFile, exitStatus >>
    /\ UNCHANGED << venvDir, activateScript, envExample, venvActive,
                    serverLaunched >>
    /\ event' = "checkEnvFile"
    /\ UNCHANGED << demoState, replyVars, siteVars >>

\* if ! grep -q "GEMINI_API_KEY=.*[^_]" .env; then ... exit 1; fi
checkApiKey ==
    /\ pc = "checkKey"
    /\ IF grepQuiet(envFile) # 0
       THEN pc' = "exited" /\ exitStatus' = 1
       ELSE pc' = "startServer" /\ UNCHANGED exitStatus
    /\ UNCHANGED << venvDir, activateScript, envExample, envFile, venvActive,
                    serverLaunched >>
    /\ event' = "checkApiKey"
    /\ UNCHANGED << demoState, replyVars, siteVars >>

\* python -m uvicorn src.api.main:app --reload --host 0.0.0.0 --port 8000
startServer ==
    /\ pc = "startServer"
    /\ serverLaunched' = TRUE
    /\ pc' = "serving"
    /\ UNCHANGED << venvDir, activateScript, envExample, envFile, venvActive,
                    exitStatus >>
    /\ event' = "startServer"
    /\ UNCHANGED << demoState, replyVars, siteVars >>

StartupNext ==
    \/ checkVenv
    \/ activateVenv
    \/ checkEnvFile
    \/ checkApiKey
    \/ startServer

StartupSpec == StartupInit /\ [][StartupNext]_vars

-----------------------------------------------------------------------------
(* Properties of the startup script, checked under StartupSpec *)

\* The placeholder values the script itself prints for the key.
Placeholders == { "your_api_key_here", "your_actual_api_key_here" }

KeyValue(line) == SubSeq(line, Len(KeyAssignment) + 1, Len(line))

\* The file assigns GEMINI_API_KEY a value that is neither empty nor a
\* placeholder.
HoldsApiKey(file) ==
    \E k \in 1..Len(file.lines) :
        /\ startsWith(file.lines[k], KeyAssignment)
        /\ trim(KeyValue(file.lines[k])) # ""
        /\ trim(KeyValue(file.lines[k])) \notin Placeholders

\* C11: the script ends with status 1 whenever it ends without launching,
\* and the server is launched only when the venv directory exists, .env
\* exists and .env assigns GEMINI_API_KEY a value that is neither empty nor
\* a placeholder.
Cex_C11_LaunchNeedsRealKey ==
    /\ pc = "exited" => exitStatus = 1 /\ ~serverLaunched
    /\ serverLaunched => /\ venvDir
                         /\ envFile.exists
                         /\ HoldsApiKey(envFile)

=============================================================================
